---- MODULE Spec2Model ----
(***************************************************************************)
(* Model of the meal tracker page (src/app/page.tsx): the Home component's *)
(* React state, its two effects (load from and save to localStorage), the  *)
(* file selection, the asynchronous handleSubmit with the analyzeImage     *)
(* call and compressImage callbacks, and deleteMeal (Spec, and SpecFair    *)
(* for progress).  parseMacros and the canvas sizing of compressImage are  *)
(* also exercised on their own (SpecParse, SpecCompress).                  *)
(*                                                                         *)
(* Strings are sequences of characters; a character is a TLA+ string.  A   *)
(* fixed literal of the source (a regex literal, a JSON punctuation) is    *)
(* one character of the model.                                             *)
(***************************************************************************)
EXTENDS Integers, Sequences, FiniteSets

\* Bounds of the model.
MaxMeals == 3   \* submissions start only while the collection is shorter
MaxClock == 2   \* the clock reading Date.now() ranges over 0..MaxClock
MaxCalls == 2   \* handleSubmit activations that may be pending at once

VARIABLES
    meals,      \* useState<Meal[]>: the value held, a JSON value
    loading,    \* useState(false)
    error,      \* useState<string|null>
    file,       \* useState<File|null>
    preview,    \* useState<string|null>
    storage,    \* localStorage item 'nutrition_tracker_meals'
    calls,      \* pending activations of the async handleSubmit
    phase,      \* "boot" | "loaded" | "ready" | "crashed"
    pending,    \* value queued by setMeals in the load effect
    now,        \* the reading of Date.now()
    last,       \* history: the last handler that ran and what it saw
    committed,  \* history: collection after the last insert or delete
    input,      \* argument of a function of the page examined on its own
    output      \* what that function returned (NoOutput: not yet applied)

vars == <<meals, loading, error, file, preview, storage, calls, phase,
          pending, now, last, committed, input, output>>

\* The page does not touch the argument and result of a function examined
\* on its own.
apart == <<input, output>>

NoOutput == [none |-> TRUE]

NULL == "null"
Files == {"A", "B"}
NoPreview == <<>>

----------------------------------------------------------------------------
\* Number <-> decimal string, as Number.prototype.toString and parseInt do.

DigitChar == <<"0", "1", "2", "3", "4", "5", "6", "7", "8", "9">>

IsDigit(c) == \E d \in 1..10 : DigitChar[d] = c

DigitVal(c) == (CHOOSE d \in 1..10 : DigitChar[d] = c) - 1

RECURSIVE toString(_)
toString(n) ==
    IF n < 10 THEN <<DigitChar[n + 1]>>
    ELSE toString(n \div 10) \o <<DigitChar[(n % 10) + 1]>>

RECURSIVE ParseInt(_)
ParseInt(s) ==
    IF Len(s) = 0 THEN 0
    ELSE ParseInt(SubSeq(s, 1, Len(s) - 1)) * 10 + DigitVal(s[Len(s)])

----------------------------------------------------------------------------
\* parseMacros: four independent regex matches over the answer text.

Bolt == "# (bolt) "                \* the heading marker "# " + U+26A1 + " "
CaloriesWord == " Calories"
ProteinLabel == "**Protein:** "
CarbsLabel == "**Carbs:** "
FatLabel == "**Fat:** "
GramSuffix == "g"

\* Last index of the maximal run of digits of text that starts at j.
RECURSIVE RunEnd(_, _)
RunEnd(text, j) ==
    IF j + 1 <= Len(text) /\ IsDigit(text[j + 1]) THEN RunEnd(text, j + 1)
    ELSE j

\* label (\d+) suffix matches at position i of text.
MatchAt(text, i, label, suffix) ==
    /\ text[i] = label
    /\ i + 1 <= Len(text)
    /\ IsDigit(text[i + 1])
    /\ RunEnd(text, i + 1) + 1 <= Len(text)
    /\ text[RunEnd(text, i + 1) + 1] = suffix

\* Faulty variants of getVal: no default for a missing match (NaN, written
\* -1 here), and the last occurrence instead of the first.
getValNoDefault(text, label, suffix) ==
    LET hits == {i \in 1..Len(text) : MatchAt(text, i, label, suffix)}
    IN  IF hits = {} THEN -1
        ELSE LET i == CHOOSE h \in hits : \A g \in hits : h <= g
             IN  ParseInt(SubSeq(text, i + 1, RunEnd(text, i + 1)))

getValLast(text, label, suffix) ==
    LET hits == {i \in 1..Len(text) : MatchAt(text, i, label, suffix)}
    IN  IF hits = {} THEN 0
        ELSE LET i == CHOOSE h \in hits : \A g \in hits : h >= g
             IN  ParseInt(SubSeq(text, i + 1, RunEnd(text, i + 1)))

getVal(text, label, suffix) ==
    LET hits == {i \in 1..Len(text) : MatchAt(text, i, label, suffix)}
    IN  IF hits = {} THEN 0
        ELSE LET i == CHOOSE h \in hits : \A g \in hits : h <= g
             IN  ParseInt(SubSeq(text, i + 1, RunEnd(text, i + 1)))

parseMacros(text) ==
    [calories |-> getVal(text, Bolt, CaloriesWord),
     protein  |-> getVal(text, ProteinLabel, GramSuffix),
     carbs    |-> getVal(text, CarbsLabel, GramSuffix),
     fat      |-> getVal(text, FatLabel, GramSuffix)]

\* The answer in the two-line template of the prompt.
Template(c, p, cb, f) ==
    <<Bolt>> \o toString(c) \o <<CaloriesWord, "NL", ProteinLabel>>
        \o toString(p) \o <<GramSuffix, "  |  ", CarbsLabel>>
        \o toString(cb) \o <<GramSuffix, "  |  ", FatLabel>>
        \o toString(f) \o <<GramSuffix>>

\* Answers the model call returns here: nothing, and a template answer.
Texts == {<<>>, Template(17, 2, 1, 0)}

ErrorMsgs == {"GEMINI_API_KEY is not set", "Failed to analyze image"}

\* What the awaited call resolves to: analyzeImage returns { error } or
\* { text }; handleSubmit accepts any object with these two optional fields
\* (an absent field is "" or the empty text here).
Responses ==
    {[error |-> e, text |-> t] : e \in ErrorMsgs, t \in Texts}
        \cup {[error |-> "", text |-> t] : t \in Texts}

NoResponse == [error |-> "", text |-> <<>>]

UnexpectedMsg == "An unexpected error occurred."

----------------------------------------------------------------------------
\* JSON text: a sequence of tokens.  A value of the page's state is
\* [t |-> "arr", v |-> <<meal, ...>>] or a non-array value (v empty).

Tok(k) == [k |-> k, s |-> <<>>]
StrTok(s) == [k |-> "str", s |-> s]
NumTok(n) == [k |-> "num", s |-> toString(n)]

Arr(ms) == [t |-> "arr", v |-> ms]
NonArr(t) == [t |-> t, v |-> <<>>]
NoValue == NonArr("none")

MealTokens(m) ==
    <<Tok("{"), StrTok(m.id), NumTok(m.timestamp), StrTok(m.image),
      Tok("{"), NumTok(m.macros.calories), NumTok(m.macros.protein),
      NumTok(m.macros.carbs), NumTok(m.macros.fat), Tok("}"),
      StrTok(m.rawText), Tok("}")>>

RECURSIVE MealsTokens(_)
MealsTokens(ms) ==
    IF ms = <<>> THEN <<>>
    ELSE MealTokens(Head(ms)) \o MealsTokens(Tail(ms))

JSONstringify(val) ==
    CASE val.t = "arr"  -> <<Tok("[")>> \o MealsTokens(val.v) \o <<Tok("]")>>
      [] val.t = "null" -> <<Tok("null")>>
      [] val.t = "num"  -> <<NumTok(0)>>
      [] val.t = "str"  -> <<StrTok(<<>>)>>
      [] OTHER          -> <<Tok("{"), Tok("}")>>

MealShape == <<"{", "str", "num", "str", "{", "num", "num", "num", "num",
               "}", "str", "}">>

IsMealTokens(ts) ==
    /\ Len(ts) = Len(MealShape)
    /\ \A i \in 1..Len(MealShape) : ts[i].k = MealShape[i]
    /\ \A i \in 1..Len(MealShape) :
          ts[i].k = "num" => Len(ts[i].s) > 0 /\ \A j \in 1..Len(ts[i].s) : IsDigit(ts[i].s[j])

MealOfTokens(ts) ==
    [id        |-> ts[2].s,
     timestamp |-> ParseInt(ts[3].s),
     image     |-> ts[4].s,
     macros    |-> [calories |-> ParseInt(ts[6].s), protein |-> ParseInt(ts[7].s),
                    carbs |-> ParseInt(ts[8].s), fat |-> ParseInt(ts[9].s)],
     rawText   |-> ts[11].s]

RECURSIVE ElementsOk(_)
ElementsOk(ts) ==
    IF ts = <<>> THEN TRUE
    ELSE /\ Len(ts) >= Len(MealShape)
         /\ IsMealTokens(SubSeq(ts, 1, Len(MealShape)))
         /\ ElementsOk(SubSeq(ts, Len(MealShape) + 1, Len(ts)))

RECURSIVE ElementsOf(_)
ElementsOf(ts) ==
    IF ts = <<>> THEN <<>>
    ELSE <<MealOfTokens(SubSeq(ts, 1, Len(MealShape)))>>
            \o ElementsOf(SubSeq(ts, Len(MealShape) + 1, Len(ts)))

\* JSON.parse on the texts of this model: ok = FALSE is a SyntaxError.
JSONparse(text) ==
    LET inner == SubSeq(text, 2, Len(text) - 1)
    IN  CASE Len(text) = 1 /\ text[1].k = "null" -> [ok |-> TRUE, val |-> NonArr("null")]
          [] Len(text) = 1 /\ text[1].k = "num"  -> [ok |-> TRUE, val |-> NonArr("num")]
          [] Len(text) = 1 /\ text[1].k = "str"  -> [ok |-> TRUE, val |-> NonArr("str")]
          [] text = <<Tok("{"), Tok("}")>>       -> [ok |-> TRUE, val |-> NonArr("obj")]
          [] /\ Len(text) >= 2
             /\ text[1].k = "["
             /\ text[Len(text)].k = "]"
             /\ ElementsOk(inner)                -> [ok |-> TRUE, val |-> Arr(ElementsOf(inner))]
          [] OTHER                               -> [ok |-> FALSE, val |-> NoValue]

\* localStorage: the key is absent (getItem gives null) or holds a text.
Absent == [present |-> FALSE, text |-> <<>>]
Holds(text) == [present |-> TRUE, text |-> text]

\* if (saved): null and the empty string are falsy.
Truthy(item) == item.present /\ item.text # <<>>

\* The render of Home: meals.reduce and meals.map need an array.
RenderThrows(val) == val.t # "arr"

----------------------------------------------------------------------------
\* Records and the two list operations of the page.

\* canvas.toDataURL('image/jpeg', 0.7) of the drawn file.
DataURL(f) == <<"data:image/jpeg;base64,", f>>

\* URL.createObjectURL(selectedFile).
ObjectURL(f) == <<"blob:", f>>

\* The record handleSubmit builds.
NewMeal(idClock, tsClock, compressedImage, text) ==
    [id        |-> toString(idClock),
     timestamp |-> tsClock,
     image     |-> compressedImage,
     macros    |-> parseMacros(text),
     rawText   |-> text]

\* Faulty variants: prev => [newMeal] and prev => [...prev, newMeal].
PrependReplacing(newMeal, prev) == <<newMeal>>

PrependAtEnd(newMeal, prev) == prev \o <<newMeal>>

\* prev => [newMeal, ...prev]
Prepend(newMeal, prev) == <<newMeal>> \o prev

\* prev => prev.filter(m => m.id !== id)
RECURSIVE DeleteFilter(_, _)
DeleteFilter(prev, id) ==
    IF prev = <<>> THEN <<>>
    ELSE IF Head(prev).id # id
         THEN <<Head(prev)>> \o DeleteFilter(Tail(prev), id)
         ELSE DeleteFilter(Tail(prev), id)

\* Faulty variant: the submit button without disabled={loading}.
SubmitEnabledWhileLoading(via) ==
    IF via = "form" THEN preview # NoPreview
    ELSE error # NULL

\* The submit button is rendered when preview is set and is disabled while
\* loading; the retry button is rendered when error is set.
SubmitEnabled(via) ==
    IF via = "form" THEN preview # NoPreview /\ ~loading
    ELSE error # NULL

RemoveAt(seq, i) == SubSeq(seq, 1, i - 1) \o SubSeq(seq, i + 1, Len(seq))

\* The identifiers deleteMeal is called with: those of the rendered records
\* and one that no record carries.
DeleteTargets ==
    {meals.v[i].id : i \in DOMAIN meals.v} \cup {toString(MaxClock + 1)}

\* The reducer of totalMacros, forgetting the accumulator (faulty variant).
AddMacrosOverwriting(acc, meal) == meal.macros

\* (acc, meal) => ({ calories: acc.calories + meal.macros.calories, ... })
AddMacros(acc, meal) ==
    [calories |-> acc.calories + meal.macros.calories,
     protein  |-> acc.protein + meal.macros.protein,
     carbs    |-> acc.carbs + meal.macros.carbs,
     fat      |-> acc.fat + meal.macros.fat]

ZeroMacros == [calories |-> 0, protein |-> 0, carbs |-> 0, fat |-> 0]

\* ms.reduce(AddMacros, acc): left to right.
RECURSIVE Reduce(_, _)
Reduce(acc, ms) ==
    IF ms = <<>> THEN acc ELSE Reduce(AddMacros(acc, Head(ms)), Tail(ms))

\* const totalMacros = meals.reduce(..., { calories: 0, ... }), computed in
\* every render from the meals of that render.
totalMacros == Reduce(ZeroMacros, meals.v)

----------------------------------------------------------------------------
\* History record written by every handler.
\* op: the handler ("other" for one no property asks about); file: the
\* file it worked on; id: the identifier it inserted or deleted; n: records before an insert, records removed by a
\* delete; again: a retry clicked right after a failure; saved: what getItem
\* returned in the load effect, kept until startup is over; response: what
\* the analysis call resolved to in this step; stage: where the attempt
\* that failed in this step stood; selected: the file selected when the
\* insert of this step began.
Rec(op, f, id, n) ==
    [op |-> op, file |-> f, id |-> id, n |-> n, again |-> FALSE, saved |-> Absent,
     response |-> NoResponse, stage |-> "none", selected |-> NULL]

\* Collections a previous run of the page may have left in storage; the
\* clock has moved on since their newest record was made.
InitCollections ==
    {<<>>,
     <<NewMeal(0, 0, DataURL("A"), Template(17, 2, 1, 0))>>,
     <<NewMeal(1, 1, DataURL("B"), <<>>),
       NewMeal(0, 0, DataURL("A"), Template(17, 2, 1, 0))>>}

\* Contents of the key that are no array of records.
ForeignItems ==
    {Absent, Holds(<<>>), Holds(<<Tok("bad")>>), Holds(<<Tok("[")>>),
     Holds(JSONstringify(NonArr("null"))), Holds(JSONstringify(NonArr("num"))),
     Holds(JSONstringify(NonArr("str"))), Holds(JSONstringify(NonArr("obj")))}

Init ==
    /\ meals = Arr(<<>>)
    /\ loading = FALSE
    /\ error = NULL
    /\ file = NULL
    /\ preview = NoPreview
    /\ calls = <<>>
    /\ phase = "boot"
    /\ pending = NoValue
    /\ last = Rec("init", NULL, <<>>, 0)
    /\ input = <<>>
    /\ output = NoOutput
    /\ \/ /\ storage \in ForeignItems
          /\ committed = <<>>
          /\ now = 0
       \/ \E c \in InitCollections :
             /\ storage = Holds(JSONstringify(Arr(c)))
             /\ committed = c
             /\ now = IF c = <<>> THEN 0 ELSE c[1].timestamp + 1

\* Faulty variant of the load effect: the parsed array in reverse order.
LoadEffectReversed(item) ==
    IF Truthy(item) /\ JSONparse(item.text).ok
    THEN LET val == JSONparse(item.text).val
         IN  [val EXCEPT !.v = [i \in DOMAIN val.v |-> val.v[Len(val.v) + 1 - i]]]
    ELSE NoValue

\* The load effect: the value it hands to setMeals (NoValue: no call).
LoadEffect(item) ==
    IF Truthy(item) /\ JSONparse(item.text).ok
    THEN JSONparse(item.text).val
    ELSE NoValue

\* First commit: both effects run, in order, with meals = [].
Mount ==
    /\ phase = "boot"
    /\ pending' = LoadEffect(storage)
    /\ phase' = IF LoadEffect(storage) # NoValue THEN "loaded" ELSE "ready"
    /\ storage' = Holds(JSONstringify(meals))
    /\ last' = [Rec("mount", NULL, <<>>, 0) EXCEPT !.saved = storage]
    /\ UNCHANGED <<meals, loading, error, file, preview, calls, now, committed>>
    /\ UNCHANGED apart

\* The render the load effect's setMeals asked for, and the save effect
\* after its commit.  A render that throws commits nothing.
Rerender ==
    /\ phase = "loaded"
    /\ meals' = pending
    /\ pending' = NoValue
    /\ IF RenderThrows(pending)
       THEN /\ phase' = "crashed"
            /\ UNCHANGED storage
       ELSE /\ phase' = "ready"
            /\ storage' = Holds(JSONstringify(pending))
    /\ last' = [Rec("rerender", NULL, <<>>, 0) EXCEPT !.saved = last.saved]
    /\ UNCHANGED <<loading, error, file, preview, calls, now, committed>>
    /\ UNCHANGED apart

\* The page is closed or reloaded: only storage and the clock survive.
Restart ==
    /\ phase # "boot"
    /\ meals' = Arr(<<>>)
    /\ loading' = FALSE
    /\ error' = NULL
    /\ file' = NULL
    /\ preview' = NoPreview
    /\ calls' = <<>>
    /\ phase' = "boot"
    /\ pending' = NoValue
    /\ last' = Rec("restart", NULL, <<>>, 0)
    /\ UNCHANGED <<storage, now, committed>>
    /\ UNCHANGED apart

\* Time passes between two handlers.
Tick ==
    /\ now < MaxClock
    /\ now' = now + 1
    /\ last' = Rec("other", NULL, <<>>, 0)
    /\ UNCHANGED <<meals, loading, error, file, preview, storage, calls, phase,
                   pending, committed>>
    /\ UNCHANGED apart

\* Faulty variant: no if (selectedFile) guard; a cancelled dialog sets file
\* to nothing and createObjectURL throws before preview and error are set.
handleFileChangeUnguarded(selectedFile) ==
    /\ phase = "ready"
    /\ file' = selectedFile
    /\ IF selectedFile # NULL
       THEN /\ preview' = ObjectURL(selectedFile)
            /\ error' = NULL
       ELSE UNCHANGED <<preview, error>>
    /\ last' = Rec("other", NULL, <<>>, 0)
    /\ UNCHANGED <<meals, loading, storage, calls, phase, pending, now,
                   committed>>
    /\ UNCHANGED apart

handleFileChange(selectedFile) ==
    /\ phase = "ready"
    /\ IF selectedFile # NULL
       THEN /\ file' = selectedFile
            /\ preview' = ObjectURL(selectedFile)
            /\ error' = NULL
       ELSE UNCHANGED <<file, preview, error>>
    /\ last' = Rec("other", NULL, <<>>, 0)
    /\ UNCHANGED <<meals, loading, storage, calls, phase, pending, now,
                   committed>>
    /\ UNCHANGED apart

handleSubmit(via) ==
    /\ phase = "ready"
    /\ SubmitEnabled(via)
    /\ Len(calls) < MaxCalls
    /\ Len(meals.v) < MaxMeals
    /\ IF file = NULL
       THEN UNCHANGED <<loading, error, calls>>
       ELSE /\ loading' = TRUE
            /\ error' = NULL
            /\ calls' = Append(calls, [file |-> file, stage |-> "analyze", text |-> <<>>])
    /\ last' = IF via = "retry" /\ last.op = "fail"
               THEN [Rec("submit", last.file, <<>>, 0) EXCEPT !.again = TRUE]
               ELSE Rec("submit", file, <<>>, 0)
    /\ UNCHANGED <<meals, file, preview, storage, phase, pending, now,
                   committed>>
    /\ UNCHANGED apart

\* Faulty variant: no finally block, loading stays true after a failure.
FailWithoutFinally(i, msg, response) ==
    /\ error' = msg
    /\ calls' = RemoveAt(calls, i)
    /\ last' = [Rec("fail", calls[i].file, <<>>, 0)
                    EXCEPT !.response = response, !.stage = calls[i].stage]
    /\ UNCHANGED <<meals, loading, file, preview, storage, phase, pending, now,
                   committed>>

\* Faulty variant: the failure clears the selection as the success does.
FailWithClearing(i, msg, response) ==
    /\ error' = msg
    /\ loading' = FALSE
    /\ calls' = RemoveAt(calls, i)
    /\ last' = [Rec("fail", calls[i].file, <<>>, 0)
                    EXCEPT !.response = response, !.stage = calls[i].stage]
    /\ file' = NULL
    /\ preview' = NoPreview
    /\ UNCHANGED <<meals, storage, phase, pending, now, committed>>

\* catch (err) / if (response.error), then finally.
FailWith(i, msg, response) ==
    /\ error' = msg
    /\ loading' = FALSE
    /\ calls' = RemoveAt(calls, i)
    /\ last' = [Rec("fail", calls[i].file, <<>>, 0)
                    EXCEPT !.response = response, !.stage = calls[i].stage]
    /\ UNCHANGED <<meals, file, preview, storage, phase, pending, now,
                   committed>>

Fail(i, msg) == FailWith(i, msg, NoResponse)

\* Faulty variant: the text is looked at first, the error only without one.
AnalyzeReturnsTextFirst(i, response) ==
    /\ phase = "ready"
    /\ i \in DOMAIN calls
    /\ calls[i].stage = "analyze"
    /\ IF response.text = <<>> /\ response.error # ""
       THEN FailWith(i, response.error, response)
       ELSE /\ calls' = [calls EXCEPT ![i].stage = "read", ![i].text = response.text]
            /\ last' = [Rec("other", NULL, <<>>, 0) EXCEPT !.response = response]
            /\ UNCHANGED <<meals, loading, error, file, preview, storage, phase,
                           pending, now, committed>>
    /\ UNCHANGED apart

\* const response = await analyzeImage(formData); if (response.error) ...
AnalyzeReturns(i, response) ==
    /\ phase = "ready"
    /\ i \in DOMAIN calls
    /\ calls[i].stage = "analyze"
    /\ IF response.error # ""
       THEN FailWith(i, response.error, response)
       ELSE /\ calls' = [calls EXCEPT ![i].stage = "read", ![i].text = response.text]
            /\ last' = [Rec("other", NULL, <<>>, 0) EXCEPT !.response = response]
            /\ UNCHANGED <<meals, loading, error, file, preview, storage, phase,
                           pending, now, committed>>
    /\ UNCHANGED apart

AnalyzeThrows(i) ==
    /\ phase = "ready"
    /\ i \in DOMAIN calls
    /\ calls[i].stage = "analyze"
    /\ Fail(i, UnexpectedMsg)
    /\ UNCHANGED apart

ReaderOnload(i) ==
    /\ phase = "ready"
    /\ i \in DOMAIN calls
    /\ calls[i].stage = "read"
    /\ calls' = [calls EXCEPT ![i].stage = "decode"]
    /\ last' = Rec("other", NULL, <<>>, 0)
    /\ UNCHANGED <<meals, loading, error, file, preview, storage, phase, pending, now, committed>>
    /\ UNCHANGED apart

ReaderOnerror(i) ==
    /\ phase = "ready"
    /\ i \in DOMAIN calls
    /\ calls[i].stage = "read"
    /\ Fail(i, UnexpectedMsg)
    /\ UNCHANGED apart

ImgOnerror(i) ==
    /\ phase = "ready"
    /\ i \in DOMAIN calls
    /\ calls[i].stage = "decode"
    /\ Fail(i, UnexpectedMsg)
    /\ UNCHANGED apart

\* Faulty variant: compressImage is given the file selected now.
FileSelectedNow(i) == file

\* The file constant of the handleSubmit activation: the one appended to the
\* form data and the one given to compressImage.
FileOfAttempt(i) == calls[i].file

\* img.onload: without a 2D context the promise is rejected; with one it is
\* resolved and handleSubmit goes on to build and insert the record.  Both
\* readings of Date.now() are taken in the same expression and read now.
ImgOnload(i, ctx) ==
    /\ phase = "ready"
    /\ i \in DOMAIN calls
    /\ calls[i].stage = "decode"
    /\ IF ~ctx
       THEN Fail(i, UnexpectedMsg)
       ELSE LET newMeal == NewMeal(now, now, DataURL(FileOfAttempt(i)), calls[i].text)
            IN  /\ meals' = Arr(Prepend(newMeal, meals.v))
                /\ storage' = Holds(JSONstringify(Arr(Prepend(newMeal, meals.v))))
                /\ committed' = Prepend(newMeal, meals.v)
                /\ last' = [Rec("insert", calls[i].file, newMeal.id, Len(meals.v))
                                EXCEPT !.selected = file]
                /\ file' = NULL
                /\ preview' = NoPreview
                /\ loading' = FALSE
                /\ calls' = RemoveAt(calls, i)
                /\ UNCHANGED <<error, phase, pending, now>>
    /\ UNCHANGED apart

deleteMeal(id) ==
    /\ phase = "ready"
    /\ meals' = Arr(DeleteFilter(meals.v, id))
    /\ storage' = Holds(JSONstringify(Arr(DeleteFilter(meals.v, id))))
    /\ committed' = DeleteFilter(meals.v, id)
    /\ last' = Rec("delete", NULL, id, Len(meals.v) - Len(DeleteFilter(meals.v, id)))
    /\ UNCHANGED <<loading, error, file, preview, calls, phase, pending, now>>
    /\ UNCHANGED apart

Next ==
    \/ Mount
    \/ Rerender
    \/ Restart
    \/ Tick
    \/ \E f \in Files \cup {NULL} : handleFileChange(f)
    \/ \E via \in {"form", "retry"} : handleSubmit(via)
    \/ \E i \in 1..MaxCalls, r \in Responses : AnalyzeReturns(i, r)
    \/ \E i \in 1..MaxCalls : AnalyzeThrows(i)
    \/ \E i \in 1..MaxCalls : ReaderOnload(i)
    \/ \E i \in 1..MaxCalls : ReaderOnerror(i)
    \/ \E i \in 1..MaxCalls : ImgOnerror(i)
    \/ \E i \in 1..MaxCalls, ctx \in BOOLEAN : ImgOnload(i, ctx)
    \/ \E id \in DeleteTargets : deleteMeal(id)

Spec == Init /\ [][Next]_vars

\* The awaited call and the FileReader and Image callbacks of a pending
\* attempt: each of them returns, throws or fires in the end.
Completion ==
    \E i \in 1..MaxCalls :
        \/ \E r \in Responses : AnalyzeReturns(i, r)
        \/ AnalyzeThrows(i)
        \/ ReaderOnload(i)
        \/ ReaderOnerror(i)
        \/ ImgOnerror(i)
        \/ \E ctx \in BOOLEAN : ImgOnload(i, ctx)

SpecFair == Spec /\ WF_vars(Completion)

----------------------------------------------------------------------------
\* parseMacros on its own: input is [text, kind, embedded], the answer text
\* and, for an answer built from the template, the integers put into it.

MaxMacro == 10   \* template answers embed the integers 0..MaxMacro
MaxLen == 4      \* free texts have up to MaxLen characters

FieldNames == {"calories", "protein", "carbs", "fat"}

\* The label and the suffix of each field's regex.
Pattern(field) ==
    CASE field = "calories" -> <<Bolt, CaloriesWord>>
      [] field = "protein"  -> <<ProteinLabel, GramSuffix>>
      [] field = "carbs"    -> <<CarbsLabel, GramSuffix>>
      [] OTHER              -> <<FatLabel, GramSuffix>>

ParseAlphabet ==
    {Bolt, CaloriesWord, ProteinLabel, CarbsLabel, FatLabel, GramSuffix, "0", "1"}

FreeTexts == UNION {[1..k -> ParseAlphabet] : k \in 0..MaxLen}

TemplateOf(m) == Template(m.calories, m.protein, m.carbs, m.fat)

\* The template with only the fields in present written out.
PartialTemplate(m, present) ==
    (IF "calories" \in present
     THEN <<Bolt>> \o toString(m.calories) \o <<CaloriesWord>> ELSE <<>>)
    \o <<"NL">>
    \o (IF "protein" \in present
        THEN <<ProteinLabel>> \o toString(m.protein) \o <<GramSuffix>> ELSE <<>>)
    \o <<"  |  ">>
    \o (IF "carbs" \in present
        THEN <<CarbsLabel>> \o toString(m.carbs) \o <<GramSuffix>> ELSE <<>>)
    \o <<"  |  ">>
    \o (IF "fat" \in present
        THEN <<FatLabel>> \o toString(m.fat) \o <<GramSuffix>> ELSE <<>>)

TextInput(text, kind, m) == [text |-> text, kind |-> kind, embedded |-> m]

ParseInputs ==
    {TextInput(t, "free", ZeroMacros) : t \in FreeTexts}
    \cup {TextInput(TemplateOf(m), "template", m) : m \in [FieldNames -> 0..MaxMacro]}
    \cup {TextInput(PartialTemplate(m, present), "partial", m) :
             m \in [FieldNames -> {1, MaxMacro}], present \in SUBSET FieldNames}
    \cup {TextInput(TemplateOf(m) \o <<"NL">> \o TemplateOf(n), "repeated", m) :
             m \in [FieldNames -> {1, MaxMacro}], n \in [FieldNames -> {1, MaxMacro}]}

\* The page as constructed, for the specifications that exercise one function.
PageConstructed ==
    /\ meals = Arr(<<>>)
    /\ loading = FALSE
    /\ error = NULL
    /\ file = NULL
    /\ preview = NoPreview
    /\ storage = Absent
    /\ calls = <<>>
    /\ phase = "boot"
    /\ pending = NoValue
    /\ now = 0
    /\ last = Rec("init", NULL, <<>>, 0)
    /\ committed = <<>>

page == <<meals, loading, error, file, preview, storage, calls, phase,
          pending, now, last, committed>>

InitParse ==
    /\ PageConstructed
    /\ input \in ParseInputs
    /\ output = NoOutput

\* const macros = parseMacros(text)
ApplyParseMacros ==
    /\ output = NoOutput
    /\ output' = parseMacros(input.text)
    /\ UNCHANGED <<input, page>>

NextParse == ApplyParseMacros

SpecParse == InitParse /\ [][NextParse]_vars

----------------------------------------------------------------------------
\* compressImage on its own: input is the decoded image [width, height],
\* output the canvas it was drawn on.  scaleSize and the product are
\* Numbers: binary floating point with a significand of Precision bits,
\* rounded to nearest, ties to even.  A Number is [sig, exp]: the bits of
\* the significand, first bit 1, and the power of two that scales them.

MAX_WIDTH == 300
Precision == 53
MaxDim == 21     \* images of 1..MaxDim pixels a side, and the two named sizes

ImageWidths == (1..MaxDim) \cup {100, 1200}
ImageHeights == (1..MaxDim) \cup {100, 800}

\* Binary digits of a natural number, most significant first; none for 0.
RECURSIVE ToBits(_)
ToBits(n) == IF n = 0 THEN <<>> ELSE Append(ToBits(n \div 2), n % 2)

RECURSIVE FromBits(_)
FromBits(bits) ==
    IF bits = <<>> THEN 0
    ELSE 2 * FromBits(SubSeq(bits, 1, Len(bits) - 1)) + bits[Len(bits)]

\* The k low binary digits of n, most significant first.
BitsOf(n, k) == [i \in 1..k |-> (n \div 2^(k - i)) % 2]

\* bits without its leading zeros; bits holds a 1.
Normalise(bits) ==
    LET first == CHOOSE i \in 1..Len(bits) :
                     bits[i] = 1 /\ \A j \in 1..(i - 1) : bits[j] = 0
    IN  SubSeq(bits, first, Len(bits))

\* bits + 1; one bit longer when every bit was 1.
Increment(bits) ==
    LET zeros == {i \in 1..Len(bits) : bits[i] = 0}
    IN  IF zeros = {} THEN <<1>> \o [i \in 1..Len(bits) |-> 0]
        ELSE LET k == CHOOSE i \in zeros : \A j \in zeros : j <= i
             IN  [i \in 1..Len(bits) |-> IF i < k THEN bits[i] ELSE IF i = k THEN 1 ELSE 0]

\* The Number nearest to bits * 2^exp (+ something below the last bit when
\* sticky); bits starts with 1 and has at least Precision bits.
RoundToNumber(bits, exp, sticky) ==
    LET kept == SubSeq(bits, 1, Precision)
        rest == SubSeq(bits, Precision + 1, Len(bits))
        e == exp + Len(rest)
        guard == rest # <<>> /\ rest[1] = 1
        below == sticky \/ \E i \in 2..Len(rest) : rest[i] = 1
        up == guard /\ (below \/ kept[Precision] = 1)
        inc == Increment(kept)
    IN  IF ~up THEN [sig |-> kept, exp |-> e]
        ELSE IF Len(inc) = Precision THEN [sig |-> inc, exp |-> e]
        ELSE [sig |-> SubSeq(inc, 1, Precision), exp |-> e + 1]

\* Arithmetic on bit strings goes ten bits at a step.
Radix == 2^10

\* Long division r / d, r < d: the next k groups of ten quotient bits below
\* the binary point, and the remainder left.
RECURSIVE DivideBits(_, _, _)
DivideBits(r, d, k) ==
    IF k = 0 THEN [bits |-> <<>>, rem |-> r]
    ELSE LET rest == DivideBits((r * Radix) % d, d, k - 1)
         IN  [bits |-> BitsOf((r * Radix) \div d, 10) \o rest.bits, rem |-> rest.rem]

\* a / d for positive integers a and d, as a Number.  The quotient is
\* below 1/d at worst, so the groups taken hold more than Precision
\* significant bits.
NumberDivide(a, d) ==
    LET k == (Precision + Len(ToBits(d))) \div 10 + 1
        q == DivideBits(a % d, d, k)
    IN  RoundToNumber(Normalise(ToBits(a \div d) \o q.bits), -(10 * k), q.rem # 0)

\* bits * h + carry, in binary; Len(bits) is a multiple of ten.
RECURSIVE TimesBits(_, _, _)
TimesBits(bits, h, carry) ==
    IF bits = <<>> THEN ToBits(carry)
    ELSE LET t == FromBits(SubSeq(bits, Len(bits) - 9, Len(bits))) * h + carry
         IN  TimesBits(SubSeq(bits, 1, Len(bits) - 10), h, t \div Radix)
                 \o BitsOf(t % Radix, 10)

\* h * x for a positive integer h and a Number x, as a Number.
NumberTimes(h, x) ==
    LET padded == [i \in 1..((-Len(x.sig)) % 10) |-> 0] \o x.sig
    IN  RoundToNumber(Normalise(TimesBits(padded, h, 0)), x.exp, FALSE)

\* A Number stored into the canvas height, an unsigned long attribute: the
\* fraction is dropped.
ToUnsignedLong(x) ==
    IF x.exp >= 0 THEN FromBits(x.sig \o [i \in 1..x.exp |-> 0])
    ELSE IF Precision + x.exp <= 0 THEN 0
    ELSE FromBits(SubSeq(x.sig, 1, Precision + x.exp))

\* scaleSize = MAX_WIDTH / img.width; canvas.width = MAX_WIDTH;
\* canvas.height = img.height * scaleSize.
CanvasOf(img) ==
    LET scaleSize == NumberDivide(MAX_WIDTH, img.width)
    IN  [width |-> MAX_WIDTH, height |-> ToUnsignedLong(NumberTimes(img.height, scaleSize))]

Rejected == [rejected |-> TRUE]

InitCompress ==
    /\ PageConstructed
    /\ input \in [width : ImageWidths, height : ImageHeights]
    /\ output = NoOutput

\* img.onload: the canvas is sized, then drawn on and encoded if there is
\* a 2D context; without one the promise is rejected.
CompressImgOnload(ctx) ==
    /\ output = NoOutput
    /\ output' = IF ctx THEN CanvasOf(input) ELSE Rejected
    /\ UNCHANGED <<input, page>>

NextCompress == \E ctx \in BOOLEAN : CompressImgOnload(ctx)

SpecCompress == InitCompress /\ [][NextCompress]_vars

----------------------------------------------------------------------------
\* Properties.

\* The collection a startup would put on screen from a stored item.
LoadOf(item) == IF LoadEffect(item).t = "arr" THEN LoadEffect(item).v ELSE <<>>

\* The item holds data that is no array of records.
NotMealArray(item) == Truthy(item) /\ LoadEffect(item).t # "arr"

\* C1: when startup is over and the key held data that is no array of
\* records (no JSON, or JSON of another shape), the page is running with
\* the empty collection.
C1_LoadOfInvalidDataIsEmpty ==
    (last.op \in {"mount", "rerender"} /\ phase # "loaded" /\ NotMealArray(last.saved))
        => (phase = "ready" /\ meals = Arr(<<>>))

\* C2: at most one activation of handleSubmit, hence at most one call of
\* analyzeImage, is pending in every reachable state.
C2_OneAttemptInFlight == Len(calls) <= 1

\* An attempt is in flight and the user has selected another file meanwhile.
C2_Witness == Len(calls) = 1 /\ loading /\ file # calls[1].file

\* C3: in every state, what the next startup would load from storage is the
\* collection as it stood after the last insert or delete.
C3_RestartKeepsCommitted == LoadOf(storage) = committed

\* C4: a startup that has run to quiescence on a saved collection ends with
\* that collection in memory, in the same order, and in storage again.  The
\* key only ever holds the last committed collection or the empty one.
C4_RoundTrip ==
    \A c \in {committed, <<>>} :
        (last.op = "rerender" /\ last.saved = Holds(JSONstringify(Arr(c))))
            => (phase = "ready" /\ meals = Arr(c) /\ storage = last.saved)

C4_Witness ==
    /\ last.op = "rerender"
    /\ Len(committed) >= 2
    /\ last.saved = Holds(JSONstringify(Arr(committed)))
    /\ meals = Arr(committed)

\* C5: when an attempt has just failed, the file it was submitted with is
\* still the selected file, and a retry clicked then sends that file.
C5_FailedKeepsSubmittedImage ==
    /\ last.op = "fail" => file = last.file
    /\ (last.op = "submit" /\ last.again) => calls[Len(calls)].file = last.file

\* C6: a successful attempt inserts exactly one record, at index 0, built
\* from the file it sent; it clears file and preview, resets loading, shows
\* no error and leaves no attempt pending.
C6_SuccessInsertsAndReturnsToIdle ==
    [][last'.op = "insert" =>
        /\ Len(meals'.v) = Len(meals.v) + 1
        /\ Tail(meals'.v) = meals.v
        /\ Head(meals'.v).id = last'.id
        /\ Head(meals'.v).image = DataURL(last'.file)
        /\ file' = NULL
        /\ preview' = NoPreview
        /\ ~loading'
        /\ error' = NULL
        /\ calls' = <<>>
        /\ phase' = "ready"]_vars

C6_Witness ==
    /\ last.op = "insert"
    /\ last.n >= 1
    /\ Head(meals.v).image = DataURL(last.file)
    /\ file = NULL

\* a is b with some elements left out, the others in b's order.
RECURSIVE IsSubseq(_, _)
IsSubseq(a, b) ==
    IF a = <<>> THEN TRUE
    ELSE IF b = <<>> THEN FALSE
    ELSE IF Head(a) = Head(b) THEN IsSubseq(Tail(a), Tail(b))
    ELSE IsSubseq(a, Tail(b))

\* C7: the collection is ordered newest insertion first: an insert puts the
\* new record at index 0 and shifts every earlier record by one place,
\* unchanged, and a delete leaves the remaining records in their order, so
\* the records always stand in reverse order of their insertion.
C7_NewestInsertionFirst ==
    [][/\ last'.op = "insert" =>
            /\ Len(meals'.v) = Len(meals.v) + 1
            /\ meals'.v[1].id = toString(now)
            /\ \A i \in DOMAIN meals.v : meals'.v[i + 1] = meals.v[i]
       /\ last'.op = "delete" =>
            /\ Len(meals'.v) <= Len(meals.v)
            /\ IsSubseq(meals'.v, meals.v)]_vars

C7_Witness == last.op = "insert" /\ last.n >= 2 /\ Len(meals.v) = last.n + 1

\* C8: no two records of the collection have the same identifier.
C8_IdentifiersUnique ==
    \A i, j \in DOMAIN meals.v : i # j => meals.v[i].id # meals.v[j].id

\* C9: deleting the identifier of the record just inserted gives back the
\* collection of before the insert, which is the tail of the collection the
\* insert left.
C9_InsertThenDeleteRestores ==
    [][(last.op = "insert" /\ last'.op = "delete" /\ last'.id = last.id)
        => meals'.v = Tail(meals.v)]_vars

\* C10: deleteMeal(id) removes the record whose identifier is id and no
\* other record (so at most one), keeps the others unchanged and in order,
\* changes nothing when no record has that identifier, and touches neither
\* the error nor the workflow.
C10_DeleteRemovesOnlyId ==
    [][last'.op = "delete" =>
        LET id == last'.id
            before == meals.v
            after == meals'.v
            kept == {i \in DOMAIN before : before[i].id # id}
        IN  /\ Len(before) - Len(after) <= 1
            /\ Len(after) = Cardinality(kept)
            /\ \A i \in kept : after[Cardinality({j \in kept : j <= i})] = before[i]
            /\ (kept = DOMAIN before) => after = before
            /\ error' = error
            /\ phase' = "ready"
            /\ UNCHANGED <<loading, file, preview, calls>>]_vars

\* The sum of field over the records at the indices in idx, taken in no
\* particular order.
RECURSIVE SumOver(_, _, _)
SumOver(ms, idx, field) ==
    IF idx = {} THEN 0
    ELSE LET i == CHOOSE j \in idx : TRUE
         IN  ms[i].macros[field] + SumOver(ms, idx \ {i}, field)

Permutations(n) == {p \in [1..n -> 1..n] : \A i \in 1..n : \E j \in 1..n : p[j] = i}

\* C11: whenever the page renders, the totals are the element-wise sum of
\* the macros of exactly the records in the collection, all zero for the
\* empty collection, and the reduce gives the same for every reordering.
C11_TotalsAreSumOfRecords ==
    meals.t = "arr" =>
        /\ \A field \in DOMAIN ZeroMacros :
              totalMacros[field] = SumOver(meals.v, DOMAIN meals.v, field)
        /\ meals.v = <<>> => totalMacros = ZeroMacros
        /\ \A p \in Permutations(Len(meals.v)) :
              Reduce(ZeroMacros, [i \in DOMAIN meals.v |-> meals.v[p[i]]]) = totalMacros

\* Three records, not all with the same macros, and a non-zero total.
C11_Witness ==
    /\ phase = "ready"
    /\ Len(meals.v) = 3
    /\ meals.v[1].macros # meals.v[2].macros
    /\ totalMacros.calories = 34

\* The pattern of field matches somewhere in text.
Occurs(text, field) ==
    \E i \in 1..Len(text) : MatchAt(text, i, Pattern(field)[1], Pattern(field)[2])

\* text with the labels of the other three fields struck out.
OnlyField(text, field) ==
    LET others == {Bolt, CaloriesWord, ProteinLabel, CarbsLabel, FatLabel}
                      \ {Pattern(field)[1], Pattern(field)[2]}
    IN  [i \in DOMAIN text |-> IF text[i] \in others THEN "x" ELSE text[i]]

\* C12: parseMacros returns four non-negative integers for every text; a
\* field whose pattern occurs nowhere is 0; every field has the value it
\* has when the other three patterns are struck out of the text; the empty
\* text gives all zeros.
C12_ParseMacrosTotalAndIndependent ==
    output # NoOutput =>
        /\ DOMAIN output = FieldNames
        /\ \A field \in FieldNames :
              /\ output[field] \in Nat
              /\ ~Occurs(input.text, field) => output[field] = 0
              /\ output[field] = parseMacros(OnlyField(input.text, field))[field]
        /\ input.text = <<>> => output = ZeroMacros

\* A text with calories and fat but neither protein nor carbs.
C12_Witness ==
    /\ output # NoOutput
    /\ Occurs(input.text, "calories") /\ Occurs(input.text, "fat")
    /\ ~Occurs(input.text, "protein") /\ ~Occurs(input.text, "carbs")
    /\ output = [calories |-> MaxMacro, protein |-> 0, carbs |-> 0, fat |-> 1]

\* C13: from an answer in the two-line template parseMacros returns exactly
\* the integers the answer was built from, and for every field the digits
\* of the earliest match of its pattern are the ones returned.
C13_TemplateRoundTripEarliestWins ==
    output # NoOutput =>
        /\ input.kind = "template" => output = input.embedded
        /\ \A field \in FieldNames : \A i \in 1..Len(input.text) :
              (/\ MatchAt(input.text, i, Pattern(field)[1], Pattern(field)[2])
               /\ \A j \in 1..(i - 1) :
                     ~MatchAt(input.text, j, Pattern(field)[1], Pattern(field)[2]))
                  => output[field] = ParseInt(SubSeq(input.text, i + 1, RunEnd(input.text, i + 1)))

\* Two template answers in one text with different numbers: the first wins.
C13_Witness ==
    /\ output # NoOutput
    /\ input.kind = "repeated"
    /\ input.embedded = [calories |-> 1, protein |-> MaxMacro, carbs |-> 1, fat |-> MaxMacro]
    /\ parseMacros(SubSeq(input.text, Len(TemplateOf(input.embedded)) + 2, Len(input.text)))
           = [calories |-> MaxMacro, protein |-> 1, carbs |-> MaxMacro, fat |-> 1]
    /\ output = input.embedded

\* C14: a step in which the analysis call resolves with a non-empty error
\* field ends the attempt as failed with that message on display and
\* inserts nothing, saves nothing and keeps the selected file, whatever
\* text the response carries besides.
C14_ErrorFieldFailsAttempt ==
    [][last'.response.error # "" =>
        /\ last'.op = "fail"
        /\ error' = last'.response.error
        /\ ~loading'
        /\ calls' = <<>>
        /\ UNCHANGED <<meals, storage, file, preview>>]_vars

\* A response with both an error and a text has just failed the attempt.
C14_Witness ==
    /\ last.op = "fail"
    /\ last.response.error # ""
    /\ last.response.text # <<>>
    /\ error = last.response.error
    /\ file # NULL

\* C15: the canvas compressImage draws on is MAX_WIDTH wide and its height
\* is the input height times MAX_WIDTH / input width: that number when it
\* is whole, and less than one pixel away from it otherwise.  The 1200 by
\* 800 and 100 by 100 images are among the inputs.
C15_CanvasKeepsAspectRatio ==
    (output # NoOutput /\ output # Rejected) =>
        /\ output.width = MAX_WIDTH
        /\ (output.height - 1) * input.width < input.height * MAX_WIDTH
        /\ input.height * MAX_WIDTH < (output.height + 1) * input.width

\* C16: when an attempt whose analysis has succeeded fails in compressImage
\* (reader error, image error, or no 2D context), nothing is inserted,
\* meals and storage stay as they are, file and preview stay set as they
\* are, loading is reset, and the error that renders the retry button is
\* on display.
C16_PreprocessingFailureFailsAttempt ==
    [][(last'.op = "fail" /\ \E i \in DOMAIN calls :
            calls[i].stage \in {"read", "decode"} /\ calls' = RemoveAt(calls, i)) =>
        /\ UNCHANGED <<meals, storage, committed, file, preview>>
        /\ file' # NULL
        /\ preview' # NoPreview
        /\ error' = UnexpectedMsg
        /\ SubmitEnabled("retry")'
        /\ ~loading'
        /\ calls' = <<>>]_vars

\* An attempt with a template answer has just failed for lack of a 2D
\* context or on an image that does not decode, with records in store.
C16_Witness ==
    /\ last.op = "fail"
    /\ last.stage = "decode"
    /\ error = UnexpectedMsg
    /\ file = last.file
    /\ preview = ObjectURL(file)
    /\ Len(meals.v) >= 1
    /\ storage = Holds(JSONstringify(meals))

\* The attempt is over: its record is in the collection, or its error is
\* on display, or the page was closed meanwhile.
Resolved ==
    /\ ~loading
    /\ \/ last.op = "insert" /\ meals.v # <<>> /\ Head(meals.v).id = last.id
       \/ last.op = "fail" /\ error # NULL
       \/ last.op = "restart"

\* C17: when the call and the callbacks of a pending attempt complete or
\* fail in the end, every state with loading true is followed by a state
\* in which the attempt is over with loading false; and every step that
\* fails an attempt, at whatever stage, resets loading and displays an
\* error.
C17_EveryAttemptResolves ==
    /\ [](loading => <>Resolved)
    /\ [][last'.op = "fail" => ~loading' /\ error' # NULL /\ phase' = "ready"]_vars

\* The analysis call itself has thrown and the attempt is resolved as
\* failed, with nothing pending.
C17_Witness ==
    /\ Resolved
    /\ last.op = "fail"
    /\ last.stage = "analyze"
    /\ last.response = NoResponse
    /\ error = UnexpectedMsg
    /\ calls = <<>>

\* C18: a delete while an attempt is pending removes its records from the
\* collection and leaves the attempt pending as it was; the insert that
\* ends an attempt puts the new record in front of the collection as it
\* stands in that step, so no record deleted during the flight comes back
\* and the new record is there.
C18_DeleteInFlightAndInsertCompose ==
    [][/\ (last'.op = "delete" /\ calls # <<>>) =>
            /\ meals'.v = DeleteFilter(meals.v, last'.id)
            /\ \A j \in DOMAIN meals'.v : meals'.v[j].id # last'.id
            /\ calls' = calls
            /\ loading'
       /\ last'.op = "insert" =>
            /\ Len(calls) = 1
            /\ meals'.v = <<NewMeal(now, now, DataURL(calls[1].file), calls[1].text)>>
                              \o meals.v
            /\ \A m \in {meals'.v[j] : j \in 2..Len(meals'.v)} :
                  \E j \in DOMAIN meals.v : meals.v[j] = m]_vars

\* A record has just been deleted while an attempt is at the decode stage,
\* and other records remain.
C18_Witness ==
    /\ last.op = "delete"
    /\ last.n = 1
    /\ Len(calls) = 1
    /\ calls[1].stage = "decode"
    /\ loading
    /\ Len(meals.v) >= 1

\* C19: between handlers the flags agree: preview is set exactly when file
\* is set, and to the URL of that file; loading implies a file is selected;
\* an error on display implies loading is false and a file is selected, so
\* whenever the retry button is there, handleSubmit has a file to send.
C19_FlagsConsistent ==
    /\ preview # NoPreview <=> file # NULL
    /\ file # NULL => preview = ObjectURL(file)
    /\ loading => file # NULL
    /\ error # NULL => ~loading /\ file # NULL
    /\ SubmitEnabled("retry") => file # NULL

\* An attempt sent with file A has failed after the user selected file B:
\* the error is on display, nothing is loading, B and its preview are set.
C19_Witness ==
    /\ error # NULL
    /\ ~loading
    /\ last.op = "fail"
    /\ last.file = "A"
    /\ file = "B"
    /\ preview = ObjectURL("B")

\* C20: every record of the collection has the macros parseMacros gives
\* for its own rawText, and the record an attempt inserts carries the text
\* the analysis of that attempt returned and the image made from the file
\* that attempt sent to analyzeImage, whatever file is selected by then.
C20_RecordFromOneAttempt ==
    /\ [](\A j \in DOMAIN meals.v : meals.v[j].macros = parseMacros(meals.v[j].rawText))
    /\ [][last'.op = "insert" =>
            /\ Len(calls) = 1
            /\ Head(meals'.v).rawText = calls[1].text
            /\ Head(meals'.v).macros = parseMacros(calls[1].text)
            /\ Head(meals'.v).image = DataURL(calls[1].file)
            /\ last'.file = calls[1].file]_vars

\* A record made from file A and a template answer has just been inserted
\* although file B was selected while the attempt was pending.
C20_Witness ==
    /\ last.op = "insert"
    /\ last.file = "A"
    /\ last.selected = "B"
    /\ Head(meals.v).image = DataURL("A")
    /\ Head(meals.v).rawText = Template(17, 2, 1, 0)
    /\ Head(meals.v).macros = [calories |-> 17, protein |-> 2, carbs |-> 1, fat |-> 0]

====
